---- MODULE Spec2Model ----
(***************************************************************************)
(* Model of blore/inference/zstatespy.py: create(), the branch-and-bound   *)
(* enumeration of zstates (subsets of [0, nsnps) kept as sorted lists).    *)
(*                                                                         *)
(* Items and Python indices are 0-based, TLA+ sequences are 1-based: the   *)
(* element with Python index i of a list s is s[i + 1].                    *)
(*                                                                         *)
(* target is the rational target / TargetDen, scores are naturals, so the  *)
(* two comparisons of the loop are made exactly (no float rounding).       *)
(* quasi_laplace.margloglik_zcomps is an external collaborator: each call  *)
(* returns one non-negative score per zstate, chosen freely.               *)
(***************************************************************************)
EXTENDS Integers, Sequences, FiniteSets

\* ---- bounds of the model
MaxN      == 3   \* nsnps ranges over -1 .. MaxN
MaxCmax   == 3   \* cmax  ranges over  0 .. MaxCmax
MaxScore  == 1   \* a score is in 0 .. MaxScore
TargetDen == 2   \* the variable target holds t, the target is t / TargetDen

\* the targets tried: 0 (invalid), 1 - 1/TargetDen, 1, 1 + 1/TargetDen (invalid)
Targets == {0} \cup (TargetDen - 1 .. TargetDen + 1)

\* the valid ones, those in (0, 1]
ValidTargets == {t \in Targets : 0 < t /\ t <= TargetDen}

Scores == 0 .. MaxScore

VARIABLES nsnps, cmax, target, is_covariate,   \* arguments of create
          pc, exit,                            \* position in create, how it ended
          zstates, newk, oldk, leadk,          \* lists of zstates
          prob, probsum, old_probsum,          \* active scores and their sums
          norm, sel,                           \* loop counter, selected indices
          ncalls                               \* calls of margloglik_zcomps so far

vars == <<nsnps, cmax, target, is_covariate, pc, exit, zstates, newk, oldk, leadk,
          prob, probsum, old_probsum, norm, sel, ncalls>>

\* ---- Python / numpy helpers

\* list(range(n)): empty for n <= 0
Range(n) == IF n <= 0 THEN << >> ELSE [i \in 1 .. n |-> i - 1]

RECURSIVE SumTo(_, _)
\* the sum of the first n entries of s
SumTo(s, n) == IF n = 0 THEN 0 ELSE s[n] + SumTo(s, n - 1)

\* np.sum of a vector
Sum(s) == SumTo(s, Len(s))

\* s[-n:] for n >= 0.  -0 is 0, so s[-0:] is s[0:], the whole list.
PySliceLast(s, n) ==
    IF n = 0 \/ n >= Len(s) THEN s ELSE SubSeq(s, Len(s) - n + 1, Len(s))

\* s[::-1]
Reverse(s) == [i \in 1 .. Len(s) |-> s[Len(s) + 1 - i]]

RECURSIVE ArgsortOver(_, _)
\* the orders (0-based indices) in which the members of S can come out
\* sorted by increasing p; equal scores come out in any order
ArgsortOver(p, S) ==
    IF S = {} THEN { << >> }
    ELSE LET lows == {i \in S : \A j \in S : p[i + 1] <= p[j + 1]}
         IN  UNION { { <<i>> \o r : r \in ArgsortOver(p, S \ {i}) } : i \in lows }

\* np.argsort(p): default kind is not stable, ties in any order
Argsort(p) == ArgsortOver(p, {i - 1 : i \in 1 .. Len(p)})

\* p[idx] (fancy indexing with a 0-based index vector)
Take(p, idx) == [i \in 1 .. Len(idx) |-> p[idx[i] + 1]]

\* np.cumsum
CumSum(s) == [i \in 1 .. Len(s) |-> SumTo(s, i)]

RECURSIVE SortSeq(_)
\* np.sort / sorted of a list of distinct integers (insertion of the head)
SortSeq(s) ==
    IF s = << >> THEN << >>
    ELSE LET r == SortSeq(Tail(s))
             k == Cardinality({i \in 1 .. Len(r) : r[i] < s[1]})
         IN  SubSeq(r, 1, k) \o <<s[1]>> \o SubSeq(r, k + 1, Len(r))

RECURSIVE Flatten(_)
\* np.array(rows).reshape(total)
Flatten(rows) == IF rows = << >> THEN << >> ELSE rows[1] \o Flatten(Tail(rows))

\* np.array(flat).reshape((n, w))
Reshape(flat, n, w) == [i \in 1 .. n |-> SubSeq(flat, (i - 1) * w + 1, i * w)]

Items(z) == {z[i] : i \in 1 .. Len(z)}

\* ---- the steps of create

\* the comparison of line 65 turned round
StopCondFlipped(ps, old, t) == ps * TargetDen > (TargetDen - t) * old

\* the comparison of line 65 made non-strict
StopCondNotStrict(ps, old, t) == ps * TargetDen <= (TargetDen - t) * old

\* line 65: probsum < (1 - target) * old_probsum, with target = t / TargetDen
StopCond(ps, old, t) == ps * TargetDen < (TargetDen - t) * old

\* line 72 with cum >= targ
WhereAtLeast(cum, ps, t) == {i \in 0 .. Len(cum) - 1 : cum[i + 1] * TargetDen >= ps * t}

\* line 72: np.where(cum > targ)[0] with targ = probsum * target (line 71),
\* as the set of the 0-based positions found
Where(cum, ps, t) == {i \in 0 .. Len(cum) - 1 : cum[i + 1] * TargetDen > ps * t}

\* nsel[0] of line 80
First(hits) == CHOOSE i \in hits : \A j \in hits : i <= j

\* line 69: np.argsort(prob)[::-1]
SortDesc(p) == {Reverse(a) : a \in Argsort(p)}

\* lines 80-82: sel = np.sort(sort[:nsel]) with nsel = nsel[0] + 1
Selection(sort, hits) == SortSeq(SubSeq(sort, 1, First(hits) + 1))

\* lines 69-82: the values sel can take, one for each order argsort can give
\* (none when no prefix is above targ)
Selections(p, ps, t) ==
    UNION { LET hits == Where(CumSum(Take(p, sort)), ps, t)
            IN  IF hits = {} THEN {} ELSE {Selection(sort, hits)} : sort \in SortDesc(p) }

\* line 90 with oldk[i] for oldk[sel[i]]
LeadKByPosition(old, s) == [i \in 1 .. Len(s) |-> old[i]]

\* line 90: [oldk[sel[i]] for i in range(nsel)]
LeadK(old, s) == [i \in 1 .. Len(s) |-> old[s[i] + 1]]

\* line 50 with range(1, nsnps)
Level1FromOne(n) == [i \in 1 .. Len(Range(n)) - 1 |-> <<i>>]

\* line 50: [[i] for i in range(nsnps)]
Level1(n) == [i \in 1 .. Len(Range(n)) |-> <<Range(n)[i]>>]

\* line 122 with range(1, nsnps)
CovariateStatesFromOne(n) == << [i \in 1 .. Len(Range(n)) - 1 |-> i] >>

\* line 122: [[i for i in range(nsnps)]]
CovariateStates(n) == << Range(n) >>

\* line 108 without sorted
UnsortedRows(result) == result

\* line 108: [sorted(list(result[i])) for i in range(newstates)]
SortedRows(result) == [i \in 1 .. Len(result) |-> SortSeq(result[i])]

\* lines 55-56 and 114-115: the score vectors margloglik_zcomps may return
\* for len zstates, one entry per zstate.  create reads posterior[-n:], and
\* posterior[0] after the first call (first = TRUE); the entries it does not
\* read are written 0.
Posteriors(len, n, first) ==
    IF n = 0 \/ n >= len THEN [1 .. len -> Scores]
    ELSE LET heads == IF first
                      THEN { <<p0>> \o [i \in 1 .. len - n - 1 |-> 0] : p0 \in Scores }
                      ELSE { [i \in 1 .. len - n |-> 0] }
         IN  { h \o t : h \in heads, t \in [1 .. n -> Scores] }

RECURSIVE ZcreateFrom(_, _, _, _)
\* create_zstates of lib/zstates.so: the pairs (leader, item) are visited
\* leader by leader, items ascending; pair number p is leader p \div n,
\* item p % n.  A pair is emitted as the leader's items followed by the new
\* item unless the item is in the leader or the same set was emitted before.
ZcreateFrom(leads, n, p, rows) ==
    IF n <= 0 \/ p >= Len(leads) * n THEN rows
    ELSE LET l    == leads[(p \div n) + 1]
             item == p % n
             dup  == \/ item \in Items(l)
                     \/ \E r \in 1 .. Len(rows) : Items(rows[r]) = Items(l) \cup {item}
         IN  ZcreateFrom(leads, n, p + 1, IF dup THEN rows ELSE Append(rows, l \o <<item>>))

\* zcreate(nsel, norm - 1, nsnps, leadk, newz) of line 105: the number of
\* new states it returns and what it has written to newz
Zcreate(nlead, k, n, flat) ==
    LET rows == ZcreateFrom(Reshape(flat, nlead, k), n, 0, << >>)
    IN  [newstates |-> Len(rows), newz |-> Flatten(rows)]

\* before the first line of create: local variables hold nothing yet
Unset ==
    /\ pc = "begin"
    /\ exit = "none"
    /\ zstates = << >> /\ newk = << >> /\ oldk = << >> /\ leadk = << >>
    /\ prob = << >> /\ probsum = 0 /\ old_probsum = 0
    /\ norm = 0 /\ sel = << >>
    /\ ncalls = 0

\* any call create(nsnps, cmax, target, ..., is_covariate) with small
\* arguments, valid or not, or the 4-SNP search of the docstring example
\* with cmax 3 or 4
Init ==
    /\ Unset
    /\ \/ /\ nsnps \in -1 .. MaxN
          /\ cmax \in 0 .. MaxCmax
          /\ target \in Targets
          /\ is_covariate \in BOOLEAN
       \/ /\ nsnps = 4
          /\ cmax \in 3 .. 4
          /\ target \in ValidTargets
          /\ is_covariate = FALSE

\* lines 120-124
Covariate ==
    /\ pc = "begin" /\ is_covariate
    /\ zstates' = CovariateStates(nsnps)
    /\ pc' = "done" /\ exit' = "covariate"
    /\ UNCHANGED <<nsnps, cmax, target, is_covariate, newk, oldk, leadk,
                   prob, probsum, old_probsum, norm, sel, ncalls>>

\* lines 48-53, and line 62 when cmax <= 1
Initialize ==
    /\ pc = "begin" /\ ~is_covariate
    /\ newk' = Level1(nsnps)
    /\ zstates' = << << >> >> \o newk'
    /\ IF cmax > 1
       THEN pc' = "score1" /\ norm' = norm
       ELSE pc' = "while" /\ norm' = 1
    /\ UNCHANGED <<nsnps, cmax, target, is_covariate, exit, oldk, leadk,
                   prob, probsum, old_probsum, sel, ncalls>>

\* lines 54-62
FirstScore ==
    /\ pc = "score1"
    /\ \E posterior \in Posteriors(Len(zstates), Len(newk), TRUE) :
         /\ prob' = PySliceLast(posterior, Len(newk))
         /\ probsum' = Sum(prob')
         /\ old_probsum' = posterior[1]
    /\ oldk' = newk
    /\ ncalls' = ncalls + 1
    /\ norm' = 1
    /\ pc' = "while"
    /\ UNCHANGED <<nsnps, cmax, target, is_covariate, exit, zstates, newk, leadk, sel>>

\* line 63, condition false: fall through to return zstates
WhileExit ==
    /\ pc = "while" /\ ~(norm < cmax)
    /\ pc' = "done" /\ exit' = "cmax"
    /\ UNCHANGED <<nsnps, cmax, target, is_covariate, zstates, newk, oldk, leadk,
                   prob, probsum, old_probsum, norm, sel, ncalls>>

\* lines 65-66
StopCheck ==
    /\ pc = "while" /\ norm < cmax
    /\ StopCond(probsum, old_probsum, target)
    /\ pc' = "done" /\ exit' = "stop"
    /\ UNCHANGED <<nsnps, cmax, target, is_covariate, zstates, newk, oldk, leadk,
                   prob, probsum, old_probsum, norm, sel, ncalls>>

\* lines 68-78, no prefix above targ
SelectEmpty ==
    /\ pc = "while" /\ norm < cmax
    /\ ~StopCond(probsum, old_probsum, target)
    /\ \A sort \in SortDesc(prob) : Where(CumSum(Take(prob, sort)), probsum, target) = {}
    /\ norm' = norm + 1
    /\ pc' = "done" /\ exit' = "empty"
    /\ UNCHANGED <<nsnps, cmax, target, is_covariate, zstates, newk, oldk, leadk,
                   prob, probsum, old_probsum, sel, ncalls>>

\* lines 68-83, some prefix above targ
Select ==
    /\ pc = "while" /\ norm < cmax
    /\ ~StopCond(probsum, old_probsum, target)
    /\ sel' \in Selections(prob, probsum, target)
    /\ norm' = norm + 1
    /\ pc' = "lead"
    /\ UNCHANGED <<nsnps, cmax, target, is_covariate, exit, zstates, newk, oldk, leadk,
                   prob, probsum, old_probsum, ncalls>>

\* line 90
LeadExtract ==
    /\ pc = "lead"
    /\ \A i \in 1 .. Len(sel) : sel[i] < Len(oldk)
    /\ leadk' = LeadK(oldk, sel)
    /\ pc' = "expand"
    /\ UNCHANGED <<nsnps, cmax, target, is_covariate, exit, zstates, newk, oldk,
                   prob, probsum, old_probsum, norm, sel, ncalls>>

\* line 90 with a selected index outside oldk: IndexError leaves create
LeadIndexError ==
    /\ pc = "lead"
    /\ \E i \in 1 .. Len(sel) : sel[i] >= Len(oldk)
    /\ pc' = "raised" /\ exit' = "IndexError"
    /\ UNCHANGED <<nsnps, cmax, target, is_covariate, zstates, newk, oldk, leadk,
                   prob, probsum, old_probsum, norm, sel, ncalls>>

\* lines 102-111.  newz is kept as the part create_zstates has written; its
\* capacity maxnewsize (line 103) is one row per (leader, item) pair, which
\* the rows written never exceed.
Expand ==
    /\ pc = "expand"
    /\ LET nsel      == Len(sel)
           out       == Zcreate(nsel, norm - 1, nsnps, Flatten(leadk))
           newstates == out.newstates
           newsize   == newstates * norm
           result    == Reshape(SubSeq(out.newz, 1, newsize), newstates, norm)
       IN  /\ newk' = SortedRows(result)
           /\ zstates' = zstates \o newk'
    /\ pc' = "score"
    /\ UNCHANGED <<nsnps, cmax, target, is_covariate, exit, oldk, leadk,
                   prob, probsum, old_probsum, norm, sel, ncalls>>

\* lines 114-118, the Scorer answering with one of `posteriors`
ScoreFrom(posteriors) ==
    /\ pc = "score"
    /\ \E posterior \in posteriors :
         /\ prob' = PySliceLast(posterior, Len(newk))
         /\ probsum' = Sum(prob')
    /\ old_probsum' = probsum
    /\ oldk' = newk
    /\ ncalls' = ncalls + 1
    /\ pc' = "while"
    /\ UNCHANGED <<nsnps, cmax, target, is_covariate, exit, zstates, newk, leadk,
                   norm, sel>>

\* lines 114-118 with any Scorer
Score == ScoreFrom(Posteriors(Len(zstates), Len(newk), FALSE))

\* lines 114-118 with a Scorer stub that gives 0 to every zstate of norm >= 2
ScoreZero ==
    ScoreFrom({ p \in Posteriors(Len(zstates), Len(newk), FALSE) :
                  \A i \in 1 .. Len(zstates) : Len(zstates[i]) >= 2 => p[i] = 0 })

Next ==
    \/ Covariate
    \/ Initialize
    \/ FirstScore
    \/ WhileExit
    \/ StopCheck
    \/ SelectEmpty
    \/ Select
    \/ LeadExtract
    \/ LeadIndexError
    \/ Expand
    \/ Score

Spec == Init /\ [][Next]_vars

\* ---- the degenerate-target scenario: 4 SNPs, cmax = 3, the stub Scorer

InitDegenerate ==
    /\ Unset
    /\ nsnps = 4
    /\ cmax = 3
    /\ target \in ValidTargets
    /\ is_covariate = FALSE

\* the steps create can take in this scenario
NextDegenerate ==
    \/ Initialize
    \/ FirstScore
    \/ StopCheck
    \/ SelectEmpty
    \/ Select
    \/ LeadExtract
    \/ Expand
    \/ ScoreZero

SpecDegenerate == InitDegenerate /\ [][NextDegenerate]_vars

\* ---- properties

\* the configurations section 6 of the specification allows
ValidConfig == nsnps >= 0 /\ cmax >= 1 /\ target \in ValidTargets

\* the items 0 .. n-1
Universe(n) == {i - 1 : i \in 1 .. n}

StrictlyIncreasing(z) == \A i \in 1 .. Len(z) - 1 : z[i] < z[i + 1]

\* the last n entries of a list that has at least n
LastN(s, n) == SubSeq(s, Len(s) - n + 1, Len(s))

\* C1: a covariate locus returns exactly one State, the whole universe
\* 0, 1, ..., nsnps-1 in ascending order, and the Scorer is never called
C1_CovariateShortCircuit ==
    (pc = "done" /\ is_covariate /\ nsnps >= 0) =>
        /\ Len(zstates) = 1
        /\ Len(zstates[1]) = nsnps
        /\ \A i \in 1 .. nsnps : zstates[1][i] = i - 1
        /\ ncalls = 0

C1_Witness == pc = "done" /\ is_covariate /\ nsnps = 3 /\ zstates = << <<0, 1, 2>> >>

\* C2: the States appended in a round are, as sets, exactly the unions of a
\* selected leader with one item not in it, and no set appears twice
C2_ExpansionExact ==
    pc = "score" =>
        LET leaders  == {oldk[sel[i] + 1] : i \in 1 .. Len(sel)}
            expected == UNION { { Items(l) \cup {x} : x \in Universe(nsnps) \ Items(l) } :
                                l \in leaders }
        IN  /\ {Items(newk[i]) : i \in 1 .. Len(newk)} = expected
            /\ \A i, j \in 1 .. Len(newk) : Items(newk[i]) = Items(newk[j]) => i = j
            /\ Len(zstates) >= Len(newk)
            /\ LastN(zstates, Len(newk)) = newk

\* two leaders that differ from each other and yield a common set
C2_Witness ==
    /\ pc = "score" /\ norm = 3
    /\ Len(leadk) >= 2
    /\ Len(newk) < Len(leadk) * (nsnps - 2)
    /\ Len(newk) >= 2

\* C3: in a search every State of the Collection is strictly increasing with
\* items in [0, nsnps), and the States appended in round norm have norm items
C3_StatesCanonical ==
    ~is_covariate =>
        /\ \A i \in 1 .. Len(zstates) :
             /\ StrictlyIncreasing(zstates[i])
             /\ Items(zstates[i]) \subseteq Universe(nsnps)
             /\ (Len(zstates[i]) <= 1 \/ Len(zstates[i]) <= norm)
        /\ pc = "score" => \A i \in 1 .. Len(newk) : Len(newk[i]) = norm /\ norm >= 2

\* a level of norm 3 built from leaders whose new item is not the largest
C3_Witness ==
    /\ pc = "score" /\ norm = 3 /\ nsnps = 4
    /\ \E i \in 1 .. Len(newk) : newk[i] = <<0, 1, 3>>
    /\ \E i \in 1 .. Len(leadk) : leadk[i] = <<1, 3>>
    /\ \A i \in 1 .. Len(leadk) : leadk[i] # <<0, 1>> /\ leadk[i] # <<0, 3>>

\* C4: a search with a valid configuration ends through one of three exits
\* (norm reached cmax, stopping check, empty selection) and never by a failure
C4_ThreeExitsOnly ==
    (ValidConfig /\ ~is_covariate) =>
        /\ pc # "raised"
        /\ pc = "done" => exit \in {"cmax", "stop", "empty"}

\* C5: when the stopping check finds probsum < (1 - target) * old_probsum the
\* search returns at once: the Collection is left as it is, the Scorer is not
\* called again, and nothing happens after the return
C5_StopReturnsAtOnce ==
    [][ /\ pc # "done"
        /\ (/\ pc = "while" /\ norm < cmax
            /\ probsum * TargetDen < (TargetDen - target) * old_probsum)
           => (/\ pc' = "done" /\ exit' = "stop"
               /\ zstates' = zstates /\ ncalls' = ncalls /\ norm' = norm) ]_vars

\* level 3 sums to less than (1 - target) times level 2 with cmax = 4 and
\* 4 SNPs: returned after three Scorer calls with no State of norm 4
C5_Witness ==
    /\ pc = "done" /\ exit = "stop"
    /\ nsnps = 4 /\ cmax = 4 /\ norm = 3 /\ target \in ValidTargets
    /\ probsum > 0
    /\ probsum * TargetDen < (TargetDen - target) * old_probsum
    /\ ncalls = 3
    /\ \E i \in 1 .. Len(zstates) : Len(zstates[i]) = 3
    /\ \A i \in 1 .. Len(zstates) : Len(zstates[i]) <= 3

\* C6 as stated: with 4 SNPs, cmax = 3 and the stub Scorer the search ends
\* through the empty selection and returns the 5 States of levels 0 and 1
C6_ReturnsLevels0And1 ==
    pc = "done" =>
        /\ exit = "empty"
        /\ Len(zstates) = 5
        /\ \A i \in 1 .. Len(zstates) : Len(zstates[i]) <= 1

\* C6 amended: no State of norm >= 3 is generated; levels 0 and 1 alone are
\* returned exactly when the search ends at level 1 (first stopping check, or
\* empty selection), otherwise level 2 is appended, scored 0, and the search
\* ends through the stopping check
C6_StopsAfterLevel2 ==
    pc = "done" =>
        /\ zstates[1] = << >>
        /\ \A i \in 1 .. 4 : zstates[i + 1] = <<i - 1>>
        /\ \A i \in 6 .. Len(zstates) : Len(zstates[i]) = 2
        /\ \/ /\ exit = "stop" /\ norm = 1 /\ Len(zstates) = 5
              /\ probsum * TargetDen < (TargetDen - target) * old_probsum
           \/ /\ exit = "empty" /\ norm = 2 /\ Len(zstates) = 5
              /\ probsum = 0 \/ target = TargetDen
           \/ /\ exit = "stop" /\ norm = 2 /\ Len(zstates) > 5
              /\ probsum = 0 /\ old_probsum > 0 /\ target < TargetDen

\* level 2 was generated and is returned
C6_Witness ==
    /\ pc = "done" /\ exit = "stop" /\ norm = 2
    /\ Len(zstates) = 11 /\ probsum = 0

\* C7: a search with an invalid configuration fails before any Scorer call
\* and without returning a Collection
C7_InvalidConfigFails ==
    (~ValidConfig /\ ~is_covariate) => (ncalls = 0 /\ pc # "done")

\* C8: a search with nsnps >= 1 and cmax >= 1 returns a Collection that begins
\* with the empty State and the singletons [0], ..., [nsnps-1]; with cmax = 1
\* that is all of it and the Scorer was never called
C8_Levels0And1 ==
    (pc = "done" /\ ~is_covariate /\ nsnps >= 1 /\ cmax >= 1) =>
        /\ Len(zstates) >= 1 + nsnps
        /\ zstates[1] = << >>
        /\ \A i \in 1 .. nsnps : zstates[i + 1] = <<i - 1>>
        /\ cmax = 1 => (Len(zstates) = 1 + nsnps /\ ncalls = 0)

C8_Witness ==
    /\ pc = "done" /\ ~is_covariate /\ nsnps = 3 /\ cmax = 1
    /\ zstates = << << >>, <<0>>, <<1>>, <<2>> >>

C10_ProbMatchesLevel ==
    (ValidConfig /\ pc = "while" /\ ncalls >= 1) =>
        (Len(prob) = Len(newk) /\ Len(prob) = Len(oldk))
====
